---- MODULE Spec2Model ----
(***************************************************************************)
(* Model of plugins/connector-integration-suite/hooks/tool_usage_hook.py:  *)
(* the post-tool-use hook that appends one JSON line per invocation to a   *)
(* per-session file under <cwd>/.claude/analytics/tool_usage_history/.     *)
(*                                                                         *)
(* Texts are sequences of characters (one-element strings, or a token such *)
(* as "U+00E9" naming a non-ASCII character).  A Python value that may be  *)
(* None, a str or something else is a record [k, v]: k is "none", "text"   *)
(* or "num", v the characters of a text.                                   *)
(***************************************************************************)
EXTENDS Integers, Sequences, FiniteSets, TLC

VARIABLES
  history,    \* lines of ~/.claude/history.jsonl, in file order
  histState,  \* "missing" | "ok" | "unreadable" (exists, open()/read fails)
  fs,         \* files below the analytics directory: path -> lines
  dirExists,  \* the analytics directory exists
  clock,      \* wall clock, in ticks since midnight
  runs,       \* one record per finished invocation of main(), in call order
  sanIn,      \* sanitize_filename: argument
  sanOut,     \* sanitize_filename(sanIn)
  sanTwice,   \* sanitize_filename(sanitize_filename(sanIn))
  sanPhase,   \* 0: not applied, 1: applied once, 2: applied twice
  lblSid,     \* get_session_prompt: argument
  lblOut,     \* get_session_prompt: outcome
  lblDone     \* get_session_prompt has returned (or raised)

vars == <<history, histState, fs, dirExists, clock, runs,
          sanIn, sanOut, sanTwice, sanPhase, lblSid, lblOut, lblDone>>

mainVars == <<history, histState, fs, dirExists, clock, runs>>
sanVars == <<sanIn, sanOut, sanTwice, sanPhase>>
lblVars == <<lblSid, lblOut, lblDone>>

\* ---------------------------------------------------------------- bounds
MaxTail == 2          \* free characters after the padding of a sanitize input
MaxLines == 2         \* lines of a history source given to get_session_prompt
MaxAppends == 1       \* lines the history source grows to while the hook runs
MaxRuns == 2          \* invocations of the hook in one behaviour
MaxClock == 1         \* last tick of the wall clock
TicksPerSecond == 1   \* resolution of the wall clock

\* -------------------------------------------------------- Python values
None == [k |-> "none", v |-> <<>>]
Text(s) == [k |-> "text", v |-> s]
NonText == [k |-> "num", v |-> <<>>]

Min(a, b) == IF a < b THEN a ELSE b

\* ------------------------------------------------------------ characters
AsciiAlnum ==
  {"a","b","c","d","e","f","g","h","i","j","k","l","m","n","o","p","q","r",
   "s","t","u","v","w","x","y","z",
   "A","B","C","D","E","F","G","H","I","J","K","L","M","N","O","P","Q","R",
   "S","T","U","V","W","X","Y","Z",
   "0","1","2","3","4","5","6","7","8","9"}

\* Letters and digits outside ASCII: a str pattern is Unicode-aware, so \w
\* matches them.
UnicodeAlnum == {"U+00E9"}

\* \w of a str pattern
PyWord(c) == c \in AsciiAlnum \cup UnicodeAlnum \cup {"_"}

\* \s of a str pattern
PySpace(c) == c \in {" ", "\t"}

\* [-\s]
IsSep(c) == c = "-" \/ PySpace(c)

\* ------------------------------------------------------ sanitize_filename
MaxNameLen == 50

UnknownSession ==
  <<"u","n","k","n","o","w","n","_","s","e","s","s","i","o","n">>

\* re.sub(r'[^\w\s-]', '', text)
RemoveSpecial(t) == SelectSeq(t, LAMBDA c : PyWord(c) \/ IsSep(c))

RECURSIVE DropSeps(_)
DropSeps(t) ==
  IF t # <<>> /\ IsSep(Head(t)) THEN DropSeps(Tail(t)) ELSE t

\* re.sub(r'[-\s]+', '_', clean_text)
RECURSIVE CollapseRuns(_)
CollapseRuns(t) ==
  IF t = <<>> THEN <<>>
  ELSE IF IsSep(Head(t)) THEN <<"_">> \o CollapseRuns(DropSeps(Tail(t)))
  ELSE <<Head(t)>> \o CollapseRuns(Tail(t))

RECURSIVE LStrip(_)
LStrip(t) == IF t # <<>> /\ Head(t) = "_" THEN LStrip(Tail(t)) ELSE t

RECURSIVE RStrip(_)
RStrip(t) ==
  IF t # <<>> /\ t[Len(t)] = "_" THEN RStrip(SubSeq(t, 1, Len(t) - 1)) ELSE t

\* A strip that removes one underscore per side instead of all of them.
StripOneUnderscore(t) ==
  LET l == IF t # <<>> /\ Head(t) = "_" THEN Tail(t) ELSE t
  IN  IF l # <<>> /\ l[Len(l)] = "_" THEN SubSeq(l, 1, Len(l) - 1) ELSE l

\* .strip('_')
StripUnderscores(t) == RStrip(LStrip(t))

\* clean_text[:50]
Truncate(t) == SubSeq(t, 1, Min(Len(t), MaxNameLen))

\* The outcome of sanitize_filename(text): [raised, v].  `not text` holds for
\* None and ''; re.sub raises TypeError on a value that is not a str.
sanitize_filename(text) ==
  IF text.k = "none" \/ (text.k = "text" /\ text.v = <<>>)
    THEN [raised |-> FALSE, v |-> UnknownSession]
  ELSE IF text.k # "text"
    THEN [raised |-> TRUE, v |-> <<>>]
  ELSE [raised |-> FALSE,
        v |-> Truncate(StripUnderscores(CollapseRuns(RemoveSpecial(text.v))))]

\* ------------------------------------- specification of sanitize_filename
Alphabet == {"a", "7", "_", "-", " ", "/", "U+00E9"}

RECURSIVE Pad(_)
Pad(k) == IF k = 0 THEN <<>> ELSE <<"a">> \o Pad(k - 1)

Tails == UNION {[1..n -> Alphabet] : n \in 0..MaxTail}

\* Inputs on both sides of the truncation length: k letters, then up to
\* MaxTail characters of any class.
SanInputs == {Pad(k) \o t : k \in 0..(MaxNameLen + 1), t \in Tails}

NoFiles == [n \in {} |-> <<>>]

MainInit ==
  /\ history = <<>>
  /\ histState = "missing"
  /\ fs = NoFiles
  /\ dirExists = FALSE
  /\ clock = 0
  /\ runs = <<>>

SanIdle ==
  /\ sanIn = <<>>
  /\ sanOut = None
  /\ sanTwice = None
  /\ sanPhase = 0

LblIdle ==
  /\ lblSid = None
  /\ lblOut = [raised |-> FALSE, v |-> None]
  /\ lblDone = FALSE

SanInit ==
  /\ MainInit
  /\ LblIdle
  /\ sanIn \in SanInputs
  /\ sanOut = None
  /\ sanTwice = None
  /\ sanPhase = 0

\* sanitize_filename(sanIn)
Sanitize ==
  /\ sanPhase = 0
  /\ sanOut' = Text(sanitize_filename(Text(sanIn)).v)
  /\ sanPhase' = 1
  /\ UNCHANGED <<sanIn, sanTwice, mainVars, lblVars>>

\* sanitize_filename applied to its own result
SanitizeAgain ==
  /\ sanPhase = 1
  /\ sanTwice' = Text(sanitize_filename(sanOut).v)
  /\ sanPhase' = 2
  /\ UNCHANGED <<sanIn, sanOut, mainVars, lblVars>>

SanNext == Sanitize \/ SanitizeAgain

SpecSan == SanInit /\ [][SanNext]_vars

\* ------------------------------------------------ claims on sanitization
\* "consists only of characters sanitization keeps (alphanumerics and
\* underscores)", at most 50 characters
CleanText(t) ==
  /\ Len(t) <= MaxNameLen
  /\ \A i \in 1..Len(t) : PyWord(t[i])

HasAlnum(t) == \E i \in 1..Len(t) : t[i] \in AsciiAlnum \cup UnicodeAlnum

\* C6 (as stated): for every clean text x of at most 50 characters,
\* sanitize_filename(sanitize_filename(x)) = sanitize_filename(x).
C6_IdempotentOnClean ==
  (sanPhase = 2 /\ CleanText(sanIn)) => sanTwice = sanOut

\* C6 (amended): for every clean text x of at most 50 characters that is
\* empty or has at least one alphanumeric character,
\* sanitize_filename(sanitize_filename(x)) = sanitize_filename(x).
C6_IdempotentOnCleanAlnum ==
  (sanPhase = 2 /\ CleanText(sanIn) /\ (sanIn = <<>> \/ HasAlnum(sanIn)))
    => sanTwice = sanOut

\* a clean text with a leading underscore has been sanitized twice
C6_Witness ==
  /\ sanPhase = 2
  /\ sanIn = <<"_", "a">>
  /\ sanOut = Text(<<"a">>)

\* C7: the result of sanitize_filename has at most 50 characters, all of
\* them in [A-Za-z0-9_], and neither its first nor its last is an underscore.
C7_SafeResult ==
  sanPhase >= 1 =>
    /\ Len(sanOut.v) <= MaxNameLen
    /\ \A i \in 1..Len(sanOut.v) : sanOut.v[i] \in AsciiAlnum \cup {"_"}
    /\ sanOut.v # <<>> =>
         (sanOut.v[1] # "_" /\ sanOut.v[Len(sanOut.v)] # "_")

\* ----------------------------------------------------- get_session_prompt
\* One line of history.jsonl, by what json.loads(line) does with it:
\*   "bad"    raises json.JSONDecodeError (not JSON, blank line)
\*   "error"  raises another exception: RecursionError on deeply nested
\*            brackets, ValueError on an integer beyond the digit limit
\*            (for a history line also UnicodeDecodeError, raised by the
\*            read when its bytes are not valid text)
\*   "nonobj" returns a value that is not a dict (a list, a number)
\*   "obj"    returns a dict
Absent == [k |-> "absent", v |-> <<>>]
Num(n) == [k |-> "num", n |-> n]
NoTimestamp == [k |-> "absent", n |-> 0]
StrTimestamp == [k |-> "str", n |-> 0]
Inf == [k |-> "inf", n |-> 0]

Obj(s, t, d) == [kind |-> "obj", sessionId |-> s, timestamp |-> t, display |-> d]
Other(kd) ==
  [kind |-> kd, sessionId |-> Absent, timestamp |-> NoTimestamp, display |-> Absent]

SidA == <<"a", "b", "c">>
SidB == <<"x", "/", "y">>
LabelA == <<"F", "i", "x", " ", "i", "t", "!">>
LabelB == <<"o", "k">>

HistSids == {Text(SidA), Text(SidB)}
Timestamps == {NoTimestamp, StrTimestamp, Num(1), Num(2)}
Displays == {Absent, NonText, Text(LabelA), Text(LabelB)}

Lines ==
  {Other("bad"), Other("error"), Other("nonobj")}
    \cup {Obj(s, t, d) : s \in HistSids, t \in Timestamps, d \in Displays}

\* entry.get("timestamp", 0)
TimestampOf(line) ==
  IF line.timestamp.k = "absent" THEN Num(0) ELSE line.timestamp

\* entry.get("display", "")
DisplayOf(line) ==
  IF line.display.k = "absent" THEN Text(<<>>) ELSE line.display

\* timestamp < min_timestamp, min_timestamp starting at float('inf')
TsLess(ts, min) == min.k = "inf" \/ ts.n < min.n

ScanInit == [first_prompt |-> None, min_timestamp |-> Inf, exc |-> "none"]

\* The body of the for loop; exc names an exception that leaves the loop.
ScanLine(st, line, sid) ==
  IF st.exc # "none" THEN st
  ELSE IF line.kind = "bad" THEN st
  ELSE IF line.kind = "error" THEN [st EXCEPT !.exc = "ValueError"]
  ELSE IF line.kind = "nonobj" THEN [st EXCEPT !.exc = "AttributeError"]
  ELSE IF line.sessionId # sid THEN st
  ELSE IF TimestampOf(line).k # "num" THEN [st EXCEPT !.exc = "TypeError"]
  ELSE IF TsLess(TimestampOf(line), st.min_timestamp)
    THEN [first_prompt |-> DisplayOf(line),
          min_timestamp |-> TimestampOf(line),
          exc |-> "none"]
  ELSE st

RECURSIVE ScanFrom(_, _, _)
ScanFrom(st, h, sid) ==
  IF h = <<>> THEN st ELSE ScanFrom(ScanLine(st, Head(h), sid), Tail(h), sid)

Returned(val) == [raised |-> FALSE, v |-> val]

\* except Exception: return None
ExceptException(st) ==
  IF st.exc # "none" THEN Returned(None) ELSE Returned(st.first_prompt)

get_session_prompt(sid, hs, h) ==
  IF hs = "missing" THEN Returned(None)
  ELSE ExceptException(IF hs = "unreadable"
                         THEN [ScanInit EXCEPT !.exc = "OSError"]
                         ELSE ScanFrom(ScanInit, h, sid))

\* ------------------------------------ specification of get_session_prompt
Histories == UNION {[1..n -> Lines] : n \in 0..MaxLines}

LblInit ==
  /\ fs = NoFiles
  /\ dirExists = FALSE
  /\ clock = 0
  /\ runs = <<>>
  /\ SanIdle
  /\ histState \in {"missing", "ok", "unreadable"}
  /\ history \in (IF histState = "missing" THEN {<<>>} ELSE Histories)
  /\ lblSid \in HistSids
  /\ lblOut = Returned(None)
  /\ lblDone = FALSE

Resolve ==
  /\ ~lblDone
  /\ lblOut' = get_session_prompt(lblSid, histState, history)
  /\ lblDone' = TRUE
  /\ UNCHANGED <<lblSid, mainVars, sanVars>>

LblNext == Resolve

SpecLabel == LblInit /\ [][LblNext]_vars

\* --------------------------------------------- claims on the session label
Matching(h, sid) ==
  {i \in 1..Len(h) : h[i].kind = "obj" /\ h[i].sessionId = sid}

\* the matching record with the smallest timestamp, the first in file order
\* among those that share it
Earliest(h, sid) ==
  CHOOSE i \in Matching(h, sid) :
    \A j \in Matching(h, sid) :
      \/ h[i].timestamp.n < h[j].timestamp.n
      \/ (h[i].timestamp.n = h[j].timestamp.n /\ i <= j)

\* C1: whatever the lines of a readable history source, if records match the
\* identifier (each with a numeric timestamp), get_session_prompt returns the
\* display text of the matching record with the smallest timestamp, the first
\* in file order among equals.
C1_EarliestDisplay ==
  (/\ lblDone
   /\ histState = "ok"
   /\ Matching(history, lblSid) # {}
   /\ \A i \in Matching(history, lblSid) : history[i].timestamp.k = "num")
    => lblOut = Returned(DisplayOf(history[Earliest(history, lblSid)]))

\* C4: get_session_prompt never raises; it returns a text or None, and None
\* whenever the source is missing or unreadable or no record matches.
C4_NeverRaises ==
  lblDone =>
    /\ ~lblOut.raised
    /\ lblOut.v.k \in {"text", "none"}
    /\ (histState # "ok" \/ Matching(history, lblSid) = {}) => lblOut.v = None

\* a line that fails to parse: json.loads raises
Unparsable(line) == line.kind \in {"bad", "error"}

Parsable(line) == ~Unparsable(line)

\* C10: the label is the one returned for the same source with every
\* unparsable line removed.
C10_BadLinesSkipped ==
  (lblDone /\ histState = "ok")
    => lblOut = get_session_prompt(lblSid, "ok", SelectSeq(history, Parsable))

\* ------------------------------------------------------------------ main
\* The document on standard input, by what json.load(sys.stdin) does with it
\* (the kinds of a history line); a field is Absent when its key is missing.
Doc(kd, sid, tool) ==
  [kind |-> kd, session_id |-> sid, tool_name |-> tool,
   tool_input |-> Absent, tool_response |-> Absent]

Bash == <<"B", "a", "s", "h">>

PayloadSids == {Absent, Text(<<>>), Text(SidA), Text(SidB)}

StdinDocs ==
  {Doc("bad", Absent, Absent), Doc("error", Absent, Absent),
   Doc("nonobj", Absent, Absent)}
    \cup {Doc("obj", sid, Text(Bash)) : sid \in PayloadSids}

\* input_data.get(key)
PayloadGet(field) == IF field.k = "absent" THEN None ELSE field

\* A present session identifier that is an empty text passes for one.
NotNone(val) == val.k # "none"

\* the truth value of a session identifier
Truthy(val) == val.k = "text" /\ val.v # <<>>

DigitChars == <<"0", "1", "2", "3", "4", "5", "6", "7", "8", "9">>
TwoDigits(n) == <<DigitChars[(n \div 10) + 1], DigitChars[(n % 10) + 1]>>

\* the day the model's clock runs in
Today == <<"2", "0", "2", "6", "1", "1", "0", "1">>

Seconds(t) == t \div TicksPerSecond

\* datetime.now().strftime('%Y%m%d_%H%M%S'): the fraction of the second is
\* dropped
Strftime(t) ==
  Today \o <<"_">> \o TwoDigits(Seconds(t) \div 3600)
        \o TwoDigits((Seconds(t) \div 60) % 60) \o TwoDigits(Seconds(t) % 60)

\* datetime.now().isoformat(): the fraction is printed unless it is zero
IsoFormat(t) ==
  Today \o <<"T">> \o TwoDigits(Seconds(t) \div 3600) \o <<":">>
        \o TwoDigits((Seconds(t) \div 60) % 60) \o <<":">>
        \o TwoDigits(Seconds(t) % 60)
        \o (IF t % TicksPerSecond = 0
              THEN <<>>
              ELSE <<".">> \o TwoDigits(t % TicksPerSecond))

\* f"session_{session_id}_{sanitized_prompt}.jsonl"
SessionName(sid, sanitized) ==
  <<"s","e","s","s","i","o","n","_">> \o sid \o <<"_">> \o sanitized
    \o <<".","j","s","o","n","l">>

\* f"tool_usage_{datetime.now().strftime('%Y%m%d_%H%M%S')}.jsonl"
FallbackName(t) ==
  <<"t","o","o","l","_","u","s","a","g","e","_">> \o Strftime(t)
    \o <<".","j","s","o","n","l">>

\* A write that opens the file with 'w' and loses what it held.
TruncateLine(old, entry) == <<entry>>

\* open(output_file, 'a'); f.write(json.dumps(log_entry) + "\n")
AppendLine(old, entry) == Append(old, entry)

NoEntry ==
  [timestamp |-> <<>>, tool |-> None, input |-> None, result |-> None,
   session_id |-> None]

\* What one invocation did: the values of main's locals and how it ended.
\*   failed: the step that failed ("none" when the entry was appended)
\*   err:    "none" | "traceback" (uncaught exception) | "diagnostic"
\*   pos:    the line of the output file the entry became
Run(doc, sid, looked, label, name, entry, failed, pos, exit, err) ==
  [kind |-> doc.kind, session_id |-> sid, looked |-> looked, label |-> label,
   filename |-> name, entry |-> entry, failed |-> failed, pos |-> pos,
   exit |-> exit, err |-> err]

Outcome(run, files, dir) == [run |-> run, fs |-> files, dir |-> dir]

\* main(), given the document on stdin and whether the directory can be
\* created and the output file opened and written.
main(doc, mkdirOk, writeOk) ==
  LET session_id == PayloadGet(doc.session_id)
      looked == Truthy(session_id)
      prompt == IF looked
                  THEN get_session_prompt(session_id, histState, history)
                  ELSE Returned(None)
      sanitized == sanitize_filename(prompt.v)
      filename == IF Truthy(session_id)
                    THEN SessionName(session_id.v, sanitized.v)
                    ELSE FallbackName(clock)
      log_entry == [timestamp |-> IsoFormat(clock),
                    tool |-> PayloadGet(doc.tool_name),
                    input |-> PayloadGet(doc.tool_input),
                    result |-> PayloadGet(doc.tool_response),
                    session_id |-> session_id]
      old == IF filename \in DOMAIN fs THEN fs[filename] ELSE <<>>
      new == AppendLine(old, log_entry)
      written == [n \in DOMAIN fs \cup {filename} |->
                    IF n = filename THEN new ELSE fs[n]]
  IN
  IF doc.kind = "bad"
    THEN Outcome(Run(doc, None, FALSE, <<>>, <<>>, NoEntry, "stdin", 0, 0, "none"),
                 fs, dirExists)
  ELSE IF doc.kind = "error"
    THEN Outcome(Run(doc, None, FALSE, <<>>, <<>>, NoEntry, "stdin", 0, 1, "traceback"),
                 fs, dirExists)
  ELSE IF doc.kind = "nonobj"
    THEN Outcome(Run(doc, None, FALSE, <<>>, <<>>, NoEntry, "payload", 0, 1, "traceback"),
                 fs, dirExists)
  ELSE IF prompt.raised
    THEN Outcome(Run(doc, session_id, looked, <<>>, <<>>, NoEntry, "history", 0, 1, "traceback"),
                 fs, dirExists)
  ELSE IF sanitized.raised
    THEN Outcome(Run(doc, session_id, looked, <<>>, <<>>, NoEntry, "sanitize", 0, 1, "traceback"),
                 fs, dirExists)
  ELSE IF ~(dirExists \/ mkdirOk)
    THEN Outcome(Run(doc, session_id, looked, sanitized.v, filename, NoEntry, "makedirs", 0, 1, "traceback"),
                 fs, dirExists)
  ELSE IF ~writeOk
    THEN Outcome(Run(doc, session_id, looked, sanitized.v, filename, log_entry, "append", 0, 1, "diagnostic"),
                 fs, TRUE)
  ELSE Outcome(Run(doc, session_id, looked, sanitized.v, filename, log_entry, "none", Len(new), 0, "none"),
               written, TRUE)

\* --------------------------------------------- specification of the hook
\* the lines the history source gains while the hook is in use
MainLines ==
  {Obj(Text(SidA), Num(2), Text(LabelA)),
   Obj(Text(SidA), Num(1), Text(LabelB)),
   Obj(Text(SidA), Num(1), NonText)}

Init == MainInit /\ SanIdle /\ LblIdle

\* one invocation of the hook
Invoke ==
  /\ Len(runs) < MaxRuns
  /\ \E doc \in StdinDocs, mkdirOk \in BOOLEAN, writeOk \in BOOLEAN :
       LET out == main(doc, mkdirOk, writeOk)
       IN  /\ runs' = Append(runs, out.run)
           /\ fs' = out.fs
           /\ dirExists' = out.dir
  /\ UNCHANGED <<history, histState, clock, sanVars, lblVars>>

\* time passes
Tick ==
  /\ clock < MaxClock
  /\ clock' = clock + 1
  /\ UNCHANGED <<history, histState, fs, dirExists, runs, sanVars, lblVars>>

\* the owner of the history source appends a line (creating the file)
HistoryAppend ==
  /\ histState \in {"missing", "ok"}
  /\ Len(history) < MaxAppends
  /\ \E line \in MainLines : history' = Append(history, line)
  /\ histState' = "ok"
  /\ UNCHANGED <<fs, dirExists, clock, runs, sanVars, lblVars>>

\* the history source is removed (a missing source stands for every unusable
\* one here: get_session_prompt returns None for both)
HistoryRemove ==
  /\ histState # "missing"
  /\ history' = <<>>
  /\ histState' = "missing"
  /\ UNCHANGED <<fs, dirExists, clock, runs, sanVars, lblVars>>

Next == Invoke \/ Tick \/ HistoryAppend \/ HistoryRemove

Spec == Init /\ [][Next]_vars

\* ---------------------------------------------------- claims on the hook
Last(s) == s[Len(s)]

\* this step is an invocation of the hook
NewRun == Len(runs') = Len(runs) + 1

\* the invocation read a payload that carries a non-empty session identifier
HasSessionId(r) ==
  r.kind = "obj" /\ r.session_id.k = "text" /\ r.session_id.v # <<>>

\* the invocation read a payload with no session identifier, or an empty one
NoSessionId(r) ==
  r.kind = "obj" /\ (r.session_id.k = "none" \/ r.session_id.v = <<>>)

Appended(r) == r.failed = "none"

\* two invocations that appended, with the same session identifier
SameSession(i, j) ==
  /\ i < j
  /\ HasSessionId(runs[i]) /\ HasSessionId(runs[j])
  /\ runs[i].session_id = runs[j].session_id
  /\ Appended(runs[i]) /\ Appended(runs[j])

\* their entries are lines of one file, in call order
SameFileInOrder(i, j) ==
  /\ runs[i].filename = runs[j].filename
  /\ runs[i].filename \in DOMAIN fs
  /\ runs[i].pos < runs[j].pos
  /\ runs[j].pos <= Len(fs[runs[i].filename])
  /\ fs[runs[i].filename][runs[i].pos] = runs[i].entry
  /\ fs[runs[i].filename][runs[j].pos] = runs[j].entry

\* C2 (as stated): two invocations with the same non-empty session
\* identifier append their entries to the same file, in call order, and the
\* first line stays as written, whatever the history source holds at each.
C2_SameSessionSameFile ==
  \A i, j \in 1..Len(runs) : SameSession(i, j) => SameFileInOrder(i, j)

\* C2 (amended): the same, for two invocations whose label resolved from the
\* history source sanitizes to the same text.
C2_SameLabelSameFile ==
  \A i, j \in 1..Len(runs) :
    (SameSession(i, j) /\ runs[i].label = runs[j].label)
      => SameFileInOrder(i, j)

\* two invocations of one session have appended under a label found in the
\* history source
C2_Witness ==
  /\ Len(runs) >= 2
  /\ SameSession(1, 2)
  /\ runs[1].label = runs[2].label
  /\ runs[1].label # UnknownSession
  /\ Len(fs[runs[1].filename]) >= 2

\* C3: an invocation ends with a non-zero status and a diagnostic exactly
\* when the append fails; every other failure ends with status 0 and nothing
\* on the error stream.
C3_OnlyAppendFails ==
  \A i \in 1..Len(runs) :
    IF runs[i].failed = "append"
      THEN runs[i].exit # 0 /\ runs[i].err = "diagnostic"
      ELSE runs[i].exit = 0 /\ runs[i].err = "none"

\* a single path component: no separator, not a directory reference
SingleComponent(name) ==
  /\ name \notin {<<>>, <<".">>, <<".", ".">>}
  /\ \A i \in 1..Len(name) : name[i] # "/"

\* C5: the file name built by every invocation is a single path component,
\* and so is the path of every file appended to.
C5_NameIsOneComponent ==
  /\ \A i \in 1..Len(runs) :
       runs[i].failed \in {"makedirs", "append", "none"}
         => SingleComponent(runs[i].filename)
  /\ \A n \in DOMAIN fs : SingleComponent(n)

\* C8: an invocation whose standard input json.load cannot parse changes no
\* file, creates no directory, prints nothing and exits with status 0.
C8_UnparsableIsNoOp ==
  [][(NewRun /\ Last(runs').kind \in {"bad", "error"})
       => /\ fs' = fs
          /\ dirExists' = dirExists
          /\ Last(runs').exit = 0
          /\ Last(runs').err = "none"]_vars

\* C9: an invocation whose payload has no (or an empty) session identifier
\* does not read the history source, names its file
\* tool_usage_<YYYYMMDD_HHMMSS of the current time>.jsonl, leaves every other
\* file as it was and, unless a step fails, appends its entry to that file.
C9_NoLookupFallbackName ==
  [][(NewRun /\ NoSessionId(Last(runs')))
       => /\ ~Last(runs').looked
          /\ Last(runs').filename = FallbackName(clock)
          /\ \A n \in DOMAIN fs' :
               n # FallbackName(clock) => (n \in DOMAIN fs /\ fs'[n] = fs[n])
          /\ Last(runs').exit = 0 =>
               /\ FallbackName(clock) \in DOMAIN fs'
               /\ fs'[FallbackName(clock)] =
                    (IF FallbackName(clock) \in DOMAIN fs
                       THEN fs[FallbackName(clock)] ELSE <<>>)
                      \o <<Last(runs').entry>>]_vars

\* after an invocation that took its label from the history source, one
\* without session identifier has appended its entry
C9_Witness ==
  /\ Len(runs) = 2
  /\ HasSessionId(runs[1]) /\ runs[1].label = <<"o", "k">>
  /\ histState = "ok" /\ history # <<>>
  /\ NoSessionId(Last(runs))
  /\ Appended(Last(runs))
  /\ Last(runs).filename \in DOMAIN fs
  /\ Last(fs[Last(runs).filename]) = Last(runs).entry

====
